---- MODULE Spec2Model ----
(***************************************************************************)
(* A model of the unbalanced binary search tree of src/bst.py and of its   *)
(* nodes, src/tree_node.py.                                                *)
(*                                                                         *)
(* Objects live in a heap: heap[n] is the TreeNode object with identity n, *)
(* created in the order of the TreeNode(...) constructor calls.  A         *)
(* reference is an identity, or None.  The tree object is the variables    *)
(* root, size and num_of_comparisons.  Nodes that a removal unlinks stay   *)
(* in the heap with the fields they had (nothing in the code clears them). *)
(***************************************************************************)
EXTENDS Integers, Sequences, FiniteSets

VARIABLES root, size, num_of_comparisons, heap, map

vars == <<root, size, num_of_comparisons, heap, map>>

(***************************************************************************)
(* Bounds of the model.                                                    *)
(***************************************************************************)
\* keys are the integers 1..MaxKey
MaxKey == 4
\* at most MaxNodes TreeNode objects are ever constructed
MaxNodes == 3

Keys == 1..MaxKey
Values == {"a", "b"}

(***************************************************************************)
(* Python values.                                                          *)
(***************************************************************************)
\* the absent reference
None == 0

\* an argument or a return value, with its Python type
PyInt(n) == [type |-> "int", v |-> n]
PyStr == [type |-> "str", v |-> 0]
PyNone == [type |-> "NoneType", v |-> 0]
PyBool(b) == [type |-> "bool", v |-> IF b THEN 1 ELSE 0]
PyNode(n) == [type |-> "TreeNode", v |-> n]

\* isinstance(key, int)
isinstance_int(key) == key.type = "int"

\* the keys a caller may pass: integers, and one value that is no integer
KeyArgs == {PyInt(n) : n \in Keys} \cup {PyStr}

\* float('-inf') < x < float('inf') for the bounds of is_valid_recursive
NegInf == [inf |-> -1, v |-> 0]
PosInf == [inf |-> 1, v |-> 0]
Fin(n) == [inf |-> 0, v |-> n]
lt(a, b) == IF a.inf # b.inf THEN a.inf < b.inf ELSE a.inf = 0 /\ a.v < b.v

(***************************************************************************)
(* tree_node.py                                                            *)
(***************************************************************************)
TreeNode(key, value) ==
    [key |-> key, value |-> value, right |-> None, left |-> None, parent |-> None]

RECURSIVE depth(_, _)
depth(h, self) ==
    IF h[self].parent = None THEN 0 ELSE depth(h, h[self].parent) + 1

is_external(h, self) == h[self].left = None /\ h[self].right = None

is_internal(h, self) == ~is_external(h, self)

(***************************************************************************)
(* bst.py: helper functions                                                *)
(***************************************************************************)
RECURSIVE inorder_rec(_, _)
inorder_rec(h, current_node) ==
    IF current_node = None THEN <<>>
    ELSE inorder_rec(h, h[current_node].left) \o <<current_node>>
             \o inorder_rec(h, h[current_node].right)

RECURSIVE preorder_rec(_, _)
preorder_rec(h, current_node) ==
    IF current_node = None THEN <<>>
    ELSE <<current_node>> \o preorder_rec(h, h[current_node].left)
             \o preorder_rec(h, h[current_node].right)

RECURSIVE postorder_rec(_, _)
postorder_rec(h, current_node) ==
    IF current_node = None THEN <<>>
    ELSE postorder_rec(h, h[current_node].left)
             \o postorder_rec(h, h[current_node].right) \o <<current_node>>

RECURSIVE find_recursive(_, _, _)
find_recursive(h, node, key) ==
    IF node = None THEN None
    ELSE IF key = h[node].key THEN node
    ELSE IF key < h[node].key THEN find_recursive(h, h[node].left, key)
    ELSE find_recursive(h, h[node].right, key)

\* insert_recursive without the size increment of its right branch
RECURSIVE insert_recursive_right_uncounted(_, _, _, _, _)
insert_recursive_right_uncounted(h, sz, node, key, value) ==
    IF key = h[node].key THEN [heap |-> h, size |-> sz, exc |-> "KeyError"]
    ELSE IF key < h[node].key THEN
        IF h[node].left = None
        THEN [heap |-> [Append(h, TreeNode(key, value)) EXCEPT ![node].left = Len(h) + 1],
              size |-> sz + 1, exc |-> "None"]
        ELSE insert_recursive_right_uncounted(h, sz, h[node].left, key, value)
    ELSE
        IF h[node].right = None
        THEN [heap |-> [Append(h, TreeNode(key, value)) EXCEPT ![node].right = Len(h) + 1],
              size |-> sz, exc |-> "None"]
        ELSE insert_recursive_right_uncounted(h, sz, h[node].right, key, value)

\* the result is the heap and size after the call and the exception raised
RECURSIVE insert_recursive(_, _, _, _, _)
insert_recursive(h, sz, node, key, value) ==
    IF key = h[node].key THEN [heap |-> h, size |-> sz, exc |-> "KeyError"]
    ELSE IF key < h[node].key THEN
        IF h[node].left = None
        THEN [heap |-> [Append(h, TreeNode(key, value)) EXCEPT ![node].left = Len(h) + 1],
              size |-> sz + 1, exc |-> "None"]
        ELSE insert_recursive(h, sz, h[node].left, key, value)
    ELSE
        IF h[node].right = None
        THEN [heap |-> [Append(h, TreeNode(key, value)) EXCEPT ![node].right = Len(h) + 1],
              size |-> sz + 1, exc |-> "None"]
        ELSE insert_recursive(h, sz, h[node].right, key, value)

(***************************************************************************)
(* bst.py: the methods.  A method's result is the tree and heap after the  *)
(* call, the exception raised ("None" when it returns) and the value       *)
(* returned.                                                               *)
(***************************************************************************)
Result(r, sz, h, exc, val) ==
    [root |-> r, size |-> sz, heap |-> h, exc |-> exc, val |-> val]

\* BinarySearchTree(root): root is None or a node
init(h, r) == Result(r, IF r = None THEN 0 ELSE 1, h, "None", PyNone)

insert(r, sz, h, key, value) ==
    IF ~isinstance_int(key) THEN Result(r, sz, h, "ValueError", PyNone)
    ELSE IF r = None
    THEN Result(Len(h) + 1, sz + 1, Append(h, TreeNode(key.v, value)), "None", PyNone)
    ELSE LET res == insert_recursive(h, sz, r, key.v, value)
         IN  Result(r, res.size, res.heap, res.exc, PyNone)

find(r, sz, h, key) ==
    IF ~isinstance_int(key) THEN Result(r, sz, h, "ValueError", PyNone)
    ELSE LET node == find_recursive(h, r, key.v)
         IN  IF node = None THEN Result(r, sz, h, "KeyError", PyNone)
             ELSE Result(r, sz, h, "None", PyNode(node))

\* the while loop of remove_recursive: the leftmost node under node
RECURSIVE successor(_, _)
successor(h, node) ==
    IF h[node].left # None THEN successor(h, h[node].left) ELSE node

\* remove_recursive whose single-child case takes the right child where the
\* left one is the child
RECURSIVE remove_recursive_wrong_child(_, _, _)
remove_recursive_wrong_child(h, node, key) ==
    IF node = None THEN [heap |-> h, node |-> node, removed |-> FALSE]
    ELSE IF key < h[node].key THEN
        LET res == remove_recursive_wrong_child(h, h[node].left, key)
        IN  [heap |-> [res.heap EXCEPT ![node].left = res.node],
             node |-> node, removed |-> res.removed]
    ELSE IF key > h[node].key THEN
        LET res == remove_recursive_wrong_child(h, h[node].right, key)
        IN  [heap |-> [res.heap EXCEPT ![node].right = res.node],
             node |-> node, removed |-> res.removed]
    ELSE IF h[node].left # None /\ h[node].right # None THEN
        LET succ == successor(h, h[node].right)
            h1 == [h EXCEPT ![node].key = h[succ].key, ![node].value = h[succ].value]
            res == remove_recursive_wrong_child(h1, h1[node].right, key)
        IN  [heap |-> [res.heap EXCEPT ![node].right = res.node],
             node |-> node, removed |-> TRUE]
    ELSE
        [heap |-> h, node |-> h[node].right, removed |-> TRUE]

\* the result is the heap after the call and the pair (node, removed) returned
RECURSIVE remove_recursive(_, _, _)
remove_recursive(h, node, key) ==
    IF node = None THEN [heap |-> h, node |-> node, removed |-> FALSE]
    ELSE IF key < h[node].key THEN
        LET res == remove_recursive(h, h[node].left, key)
        IN  [heap |-> [res.heap EXCEPT ![node].left = res.node],
             node |-> node, removed |-> res.removed]
    ELSE IF key > h[node].key THEN
        LET res == remove_recursive(h, h[node].right, key)
        IN  [heap |-> [res.heap EXCEPT ![node].right = res.node],
             node |-> node, removed |-> res.removed]
    ELSE IF h[node].left # None /\ h[node].right # None THEN
        LET succ == successor(h, h[node].right)
            h1 == [h EXCEPT ![node].key = h[succ].key, ![node].value = h[succ].value]
            \* the recursive call still looks for key, not for the successor's key
            res == remove_recursive(h1, h1[node].right, key)
        IN  [heap |-> [res.heap EXCEPT ![node].right = res.node],
             node |-> node, removed |-> TRUE]
    ELSE IF h[node].left # None THEN
        [heap |-> h, node |-> h[node].left, removed |-> TRUE]
    ELSE
        [heap |-> h, node |-> h[node].right, removed |-> TRUE]

\* remove that decrements size before it looks at deleted
remove_counts_first(r, sz, h, key) ==
    IF ~isinstance_int(key) THEN Result(r, sz, h, "ValueError", PyNone)
    ELSE LET res == remove_recursive(h, r, key.v)
         IN  IF ~res.removed THEN Result(res.node, sz - 1, res.heap, "KeyError", PyNone)
             ELSE Result(res.node, sz - 1, res.heap, "None", PyNone)

remove(r, sz, h, key) ==
    IF ~isinstance_int(key) THEN Result(r, sz, h, "ValueError", PyNone)
    ELSE LET res == remove_recursive(h, r, key.v)
         IN  IF ~res.removed THEN Result(res.node, sz, res.heap, "KeyError", PyNone)
             ELSE Result(res.node, sz - 1, res.heap, "None", PyNone)

\* inorder(), preorder(), postorder() with the default start node
inorder(r, h) == IF r = None THEN <<>> ELSE inorder_rec(h, r)
preorder(r, h) == IF r = None THEN <<>> ELSE preorder_rec(h, r)
postorder(r, h) == IF r = None THEN <<>> ELSE postorder_rec(h, r)

\* the inner function of is_valid; is_valid never calls it
RECURSIVE is_valid_recursive(_, _, _, _)
is_valid_recursive(h, node, lower, upper) ==
    IF node = None THEN TRUE
    ELSE IF ~(lt(lower, Fin(h[node].key)) /\ lt(Fin(h[node].key), upper)) THEN FALSE
    ELSE is_valid_recursive(h, h[node].left, lower, Fin(h[node].key))
         /\ is_valid_recursive(h, h[node].right, Fin(h[node].key), upper)

\* the body of is_valid ends after the inner def: the property returns None
is_valid(r, sz, h) == Result(r, sz, h, "None", PyNone)

RECURSIVE return_min_key_loop(_, _)
return_min_key_loop(h, node) ==
    IF node # None /\ h[node].left # None THEN return_min_key_loop(h, h[node].left)
    ELSE node

return_min_key(r, h) == return_min_key_loop(h, r)

(***************************************************************************)
(* The abstract key -> value map the tree is meant to implement: a         *)
(* successful insert adds a pair, a successful remove deletes one.         *)
(***************************************************************************)
EmptyMap == [k \in {} |-> "a"]

MapPut(m, k, v) == [x \in DOMAIN m \cup {k} |-> IF x = k THEN v ELSE m[x]]

MapDel(m, k) == [x \in DOMAIN m \ {k} |-> m[x]]

(***************************************************************************)
(* The state machine: one action per call of a method.  What a call        *)
(* raises or returns is the exc and val of the method's result; a call     *)
(* that raises, and a call that only reads, leave the state as it was.     *)
(***************************************************************************)
Apply(res) ==
    /\ root' = res.root
    /\ size' = res.size
    /\ heap' = res.heap
    /\ UNCHANGED num_of_comparisons

\* a new tree: empty, or wrapping a childless node
Init ==
    \E h \in {<<>>} \cup {<<TreeNode(k, v)>> : k \in Keys, v \in Values} :
        LET res == init(h, IF h = <<>> THEN None ELSE 1)
        IN  /\ root = res.root
            /\ size = res.size
            /\ heap = res.heap
            /\ num_of_comparisons = 0
            /\ map = IF h = <<>> THEN EmptyMap ELSE MapPut(EmptyMap, h[1].key, h[1].value)

Insert(key, value) ==
    LET res == insert(root, size, heap, key, value)
    IN  /\ Len(res.heap) <= MaxNodes
        /\ Apply(res)
        /\ map' = IF res.exc = "None" THEN MapPut(map, key.v, value) ELSE map

Find(key) ==
    /\ Apply(find(root, size, heap, key))
    /\ UNCHANGED map

Remove(key) ==
    LET res == remove(root, size, heap, key)
    IN  /\ Apply(res)
        /\ map' = IF res.exc = "None" THEN MapDel(map, key.v) ELSE map

IsValid ==
    /\ Apply(is_valid(root, size, heap))
    /\ UNCHANGED map

Next ==
    \/ \E key \in KeyArgs, value \in Values : Insert(key, value)
    \/ \E key \in KeyArgs : Find(key)
    \/ \E key \in KeyArgs : Remove(key)
    \/ IsValid

Spec == Init /\ [][Next]_vars

\* runs that only insert
NextInsert == \E key \in KeyArgs, value \in Values : Insert(key, value)

SpecInsert == Init /\ [][NextInsert]_vars

(***************************************************************************)
(* Vocabulary of the properties.                                           *)
(***************************************************************************)
Range(seq) == {seq[i] : i \in 1..Len(seq)}

\* the nodes reachable from node r through left and right links
RECURSIVE Reachable(_, _)
Reachable(h, r) ==
    IF r = None THEN {}
    ELSE {r} \cup Reachable(h, h[r].left) \cup Reachable(h, h[r].right)

\* the number of nodes reachable from r, each counted once per path to it
RECURSIVE CountNodes(_, _)
CountNodes(h, r) ==
    IF r = None THEN 0
    ELSE 1 + CountNodes(h, h[r].left) + CountNodes(h, h[r].right)

KeysOf(h, seq) == [i \in 1..Len(seq) |-> h[seq[i]].key]

StrictlyAscending(ks) == \A i \in 1..Len(ks) - 1 : ks[i] < ks[i + 1]

\* the sequence ks without its elements equal to k
RECURSIVE Without(_, _)
Without(ks, k) ==
    IF ks = <<>> THEN <<>>
    ELSE IF Head(ks) = k THEN Without(Tail(ks), k)
    ELSE <<Head(ks)>> \o Without(Tail(ks), k)

\* for every node N, the keys under N.left are < N.key and those under N.right > N.key
BSTProperty(h, r) ==
    \A n \in Reachable(h, r) :
        /\ \A m \in Reachable(h, h[n].left) : h[m].key < h[n].key
        /\ \A m \in Reachable(h, h[n].right) : h[m].key > h[n].key

Present(h, r, k) == \E n \in Reachable(h, r) : h[n].key = k

\* the node whose left or right link holds n, None for the root
ParentOf(h, r, n) ==
    IF \E p \in Reachable(h, r) : h[p].left = n \/ h[p].right = n
    THEN CHOOSE p \in Reachable(h, r) : h[p].left = n \/ h[p].right = n
    ELSE None

\* the number of child links on the path from r to n
RECURSIVE Ancestors(_, _, _)
Ancestors(h, r, n) ==
    IF ParentOf(h, r, n) = None THEN 0 ELSE 1 + Ancestors(h, r, ParentOf(h, r, n))

SameTree(res) == res.root = root /\ res.size = size /\ res.heap = heap

TwoChildren(h, n) == n # None /\ h[n].left # None /\ h[n].right # None

AtMostOneChild(h, n) == n # None /\ (h[n].left = None \/ h[n].right = None)

OnlyChild(h, n) == IF h[n].left # None THEN h[n].left ELSE h[n].right

\* h with node n linked into the one absent slot (p, side), or at the root
FillsOneSlot(r, h, res, n) ==
    \/ /\ r = None
       /\ res.root = n
       /\ res.heap = Append(h, res.heap[n])
    \/ /\ r # None
       /\ res.root = r
       /\ \E p \in Reachable(h, r) :
            \/ /\ h[p].left = None
               /\ res.heap = [Append(h, res.heap[n]) EXCEPT ![p].left = n]
            \/ /\ h[p].right = None
               /\ res.heap = [Append(h, res.heap[n]) EXCEPT ![p].right = n]

(***************************************************************************)
(* C1.  In every state reached by insert and remove calls the strict BST   *)
(* property holds: under every node the left keys are smaller and the      *)
(* right keys larger, no key is in two nodes, inorder() is strictly        *)
(* ascending.                                                              *)
(***************************************************************************)
C1_StrictBST ==
    /\ BSTProperty(heap, root)
    /\ \A n, m \in Reachable(heap, root) : heap[n].key = heap[m].key => n = m
    /\ StrictlyAscending(KeysOf(heap, inorder(root, heap)))

(***************************************************************************)
(* C2.  size is the number of nodes reachable from root, and the number    *)
(* of nodes a complete inorder, preorder or postorder traversal yields.    *)
(***************************************************************************)
C2_SizeIsNodeCount ==
    /\ size = Cardinality(Reachable(heap, root))
    /\ size = Len(inorder(root, heap))
    /\ size = Len(preorder(root, heap))
    /\ size = Len(postorder(root, heap))

(***************************************************************************)
(* C3.  root is None exactly when size is 0, and size is never negative.   *)
(***************************************************************************)
C3_RootAbsentIffEmpty ==
    /\ root = None <=> size = 0
    /\ size >= 0

(***************************************************************************)
(* C4.  The tree refines the abstract map: find(k) returns a node with     *)
(* key k and the mapped value exactly when k is in the map and raises      *)
(* KeyError exactly when it is not, and remove(k) of a key that is not in  *)
(* the map raises KeyError.                                                *)
(***************************************************************************)
C4_RefinesMap ==
    \A k \in Keys :
        LET res == find(root, size, heap, PyInt(k))
        IN  IF k \in DOMAIN map
            THEN /\ res.exc = "None"
                 /\ res.val.type = "TreeNode"
                 /\ heap[res.val.v].key = k
                 /\ heap[res.val.v].value = map[k]
            ELSE /\ res.exc = "KeyError"
                 /\ remove(root, size, heap, PyInt(k)).exc = "KeyError"

(***************************************************************************)
(* C5.  Two-child removal, from a tree built by inserts: remove(k) of a    *)
(* key whose node has a left and a right child leaves that node holding    *)
(* the key and value of the minimum of its right subtree, unlinks that     *)
(* successor node, decrements size by 1 and leaves inorder() strictly      *)
(* ascending and equal to the previous key sequence without k.             *)
(***************************************************************************)
C5_TwoChildRemoval ==
    \A k \in Keys :
        LET n == find_recursive(heap, root, k)
            res == remove(root, size, heap, PyInt(k))
            succ == successor(heap, heap[n].right)
            before == KeysOf(heap, inorder(root, heap))
            after == KeysOf(res.heap, inorder(res.root, res.heap))
        IN  TwoChildren(heap, n) =>
                /\ res.exc = "None"
                /\ res.heap[n].key = heap[succ].key
                /\ res.heap[n].value = heap[succ].value
                /\ succ \notin Reachable(res.heap, res.root)
                /\ res.size = size - 1
                /\ StrictlyAscending(after)
                /\ after = Without(before, k)

(***************************************************************************)
(* C6.  is_valid returns a boolean, true exactly when every node's key is  *)
(* strictly inside the interval its ancestors induce; so it returns True   *)
(* in every state reached by insert and remove calls.                      *)
(***************************************************************************)
C6_IsValidReturnsTheCheck ==
    LET res == is_valid(root, size, heap)
    IN  /\ res.val = PyBool(is_valid_recursive(heap, root, NegInf, PosInf))
        /\ res.val = PyBool(TRUE)

(***************************************************************************)
(* C7.  Failure atomicity: insert of a key some node of the tree holds     *)
(* raises KeyError, find and remove of a key no node of the tree holds     *)
(* raise KeyError, and each of these calls leaves root, size and every     *)
(* field of every node as it was.                                          *)
(***************************************************************************)
C7_FailureAtomicity ==
    \A k \in Keys :
        IF Present(heap, root, k)
        THEN \A v \in Values :
                LET res == insert(root, size, heap, PyInt(k), v)
                IN  res.exc = "KeyError" /\ SameTree(res)
        ELSE /\ LET res == find(root, size, heap, PyInt(k))
                IN  res.exc = "KeyError" /\ SameTree(res)
             /\ LET res == remove(root, size, heap, PyInt(k))
                IN  res.exc = "KeyError" /\ SameTree(res)

\* a tree of several nodes, one key twice in it, where a call of each kind fails
C7_Witness ==
    /\ Cardinality(Reachable(heap, root)) >= 3
    /\ \E n, m \in Reachable(heap, root) : n # m /\ heap[n].key = heap[m].key
    /\ \E k \in Keys :
        /\ Present(heap, root, k)
        /\ root # None /\ heap[root].key # k
        /\ insert(root, size, heap, PyInt(k), "a").exc = "KeyError"
    /\ \E k \in Keys :
        /\ ~Present(heap, root, k)
        /\ remove(root, size, heap, PyInt(k)).exc = "KeyError"
        /\ find(root, size, heap, PyInt(k)).exc = "KeyError"

(***************************************************************************)
(* C8.  Insert-only runs: insert of a key that was not inserted before     *)
(* succeeds, increases size by 1, fills exactly one absent child slot (or  *)
(* the root) with the new childless node and leaves every existing node    *)
(* otherwise as it was; inorder() then yields exactly the inserted keys,   *)
(* strictly ascending.                                                     *)
(***************************************************************************)
C8_InsertOnly ==
    /\ {heap[n].key : n \in Range(inorder(root, heap))} = DOMAIN map
    /\ StrictlyAscending(KeysOf(heap, inorder(root, heap)))
    /\ \A k \in Keys \ DOMAIN map : \A v \in Values :
        LET res == insert(root, size, heap, PyInt(k), v)
            n == Len(heap) + 1
            after == KeysOf(res.heap, inorder(res.root, res.heap))
        IN  /\ res.exc = "None"
            /\ res.size = size + 1
            /\ Len(res.heap) = n
            /\ res.heap[n] = TreeNode(k, v)
            /\ FillsOneSlot(root, heap, res, n)
            /\ StrictlyAscending(after)
            /\ Range(after) = DOMAIN map \cup {k}

\* a tree of two levels where a new key goes under a node that is not the root
C8_Witness ==
    /\ Cardinality(Reachable(heap, root)) >= 2
    /\ \E k \in Keys \ DOMAIN map :
        LET res == insert(root, size, heap, PyInt(k), "b")
        IN  /\ res.exc = "None"
            /\ \E p \in Reachable(heap, root) \ {root} :
                   Len(heap) + 1 \in {res.heap[p].left, res.heap[p].right}

(***************************************************************************)
(* C9.  Leaf or single-child removal in a tree with the BST property:      *)
(* remove(k) of a key whose node has at most one child puts that child     *)
(* (or None) into the slot that held the node, changes no other link, key  *)
(* or value, and decreases size by 1, so that the inorder key sequence is  *)
(* the previous one without k.                                             *)
(***************************************************************************)
C9_LeafOrSingleChildRemoval ==
    \A k \in Keys :
        LET n == find_recursive(heap, root, k)
            p == ParentOf(heap, root, n)
            res == remove(root, size, heap, PyInt(k))
            before == KeysOf(heap, inorder(root, heap))
            after == KeysOf(res.heap, inorder(res.root, res.heap))
        IN  (BSTProperty(heap, root) /\ AtMostOneChild(heap, n)) =>
                /\ res.exc = "None"
                /\ res.size = size - 1
                /\ IF n = root
                   THEN res.root = OnlyChild(heap, n) /\ res.heap = heap
                   ELSE /\ res.root = root
                        /\ IF heap[p].left = n
                           THEN res.heap = [heap EXCEPT ![p].left = OnlyChild(heap, n)]
                           ELSE res.heap = [heap EXCEPT ![p].right = OnlyChild(heap, n)]
                /\ after = Without(before, k)
                /\ Len(after) = Len(before) - 1

\* a node with exactly one child, below the root, whose key remove(k) takes out
C9_Witness ==
    /\ BSTProperty(heap, root)
    /\ \E k \in Keys :
        LET n == find_recursive(heap, root, k)
            res == remove(root, size, heap, PyInt(k))
        IN  /\ n # None /\ n # root
            /\ AtMostOneChild(heap, n)
            /\ OnlyChild(heap, n) # None
            /\ res.exc = "None"
            /\ OnlyChild(heap, n) \in Reachable(res.heap, res.root)
            /\ n \notin Reachable(res.heap, res.root)

(***************************************************************************)
(* C10.  depth of a node of the tree is the number of its ancestors, the   *)
(* number of child links from root to it: the parent of a node below the   *)
(* root is the node whose left or right link holds it, and the root has    *)
(* no parent.                                                              *)
(***************************************************************************)
C10_DepthIsAncestorCount ==
    \A n \in Reachable(heap, root) :
        /\ depth(heap, n) = Ancestors(heap, root, n)
        /\ heap[n].parent = ParentOf(heap, root, n)

====
